---- MODULE Spec2Model ----
(***************************************************************************)
(* MilaMart Labs (src/main.py): the lazily populated product cache         *)
(* (get_products), the raw-record transformation it performs, the          *)
(* keyword/category filter (filter_products) and the search, product and   *)
(* chat request handlers.                                                  *)
(*                                                                         *)
(* Python strings are sequences of one-character strings, so that          *)
(* lower(), title(), replace() and the `in` substring test are computed    *)
(* and not assumed.  None is the empty option <<>>, a value v is <<v>>.    *)
(***************************************************************************)
EXTENDS Integers, Sequences, FiniteSets, TLC

(* ------------------------------ bounds --------------------------------- *)
NumCallers == 2     \* concurrent request handlers awaiting get_products
MaxCalls   == 4     \* get_products calls started in one behaviour
MaxRecords == 2     \* length of the enumerated upstream responses
MaxDeco    == 11    \* longest run of brandless home-decoration records
MaxCatalog == 3     \* length of the fixture catalogs given to filter_products

(* ------------------------------ strings -------------------------------- *)
LowerChars == <<"a","b","c","d","e","f","g","h","i","j","k","l","m",
                "n","o","p","q","r","s","t","u","v","w","x","y","z">>
UpperChars == <<"A","B","C","D","E","F","G","H","I","J","K","L","M",
                "N","O","P","Q","R","S","T","U","V","W","X","Y","Z">>
Digits     == <<"0","1","2","3","4","5","6","7","8","9">>

IsLowerCh(c) == \E i \in 1..Len(LowerChars) : LowerChars[i] = c
IsUpperCh(c) == \E i \in 1..Len(UpperChars) : UpperChars[i] = c
IsCasedCh(c) == IsLowerCh(c) \/ IsUpperCh(c)

ToLowerCh(c) ==
    IF IsUpperCh(c)
    THEN LowerChars[CHOOSE i \in 1..Len(UpperChars) : UpperChars[i] = c]
    ELSE c

ToUpperCh(c) ==
    IF IsLowerCh(c)
    THEN UpperChars[CHOOSE i \in 1..Len(LowerChars) : LowerChars[i] = c]
    ELSE c

\* str.lower()
StrLower(s) == [i \in 1..Len(s) |-> ToLowerCh(s[i])]

\* str.replace("-", " ")
ReplaceHyphen(s) == [i \in 1..Len(s) |-> IF s[i] = "-" THEN " " ELSE s[i]]

\* str.title(): a cased character is upper-cased when it starts a run of
\* cased characters and lower-cased otherwise
StrTitle(s) ==
    [i \in 1..Len(s) |->
        IF ~IsCasedCh(s[i]) THEN s[i]
        ELSE IF i = 1 \/ ~IsCasedCh(s[i-1]) THEN ToUpperCh(s[i])
        ELSE ToLowerCh(s[i])]

\* q in s  (substring test; the empty string is in every string)
PyIn(q, s) ==
    \E k \in 0..(Len(s) - Len(q)) : \A j \in 1..Len(q) : s[k + j] = q[j]

\* str(n) for a non-negative int
RECURSIVE StrOfInt(_)
StrOfInt(n) ==
    IF n < 10 THEN <<Digits[n + 1]>>
    ELSE StrOfInt(n \div 10) \o <<Digits[(n % 10) + 1]>>

(* ------------------------- module constants ---------------------------- *)
S_groceries == <<"g","r","o","c","e","r","i","e","s">>
S_kitchen_accessories ==
    <<"k","i","t","c","h","e","n","-","a","c","c","e","s","s","o","r","i","e","s">>
S_home_decoration ==
    <<"h","o","m","e","-","d","e","c","o","r","a","t","i","o","n">>

EXCLUDED_CATEGORIES_GroceriesOnly == {S_groceries}
EXCLUDED_CATEGORIES == {S_groceries, S_kitchen_accessories}

HOME_DECO_BRANDS ==
    << <<"I","K","E","A">>,
       <<"W","e","s","t"," ","E","l","m">>,
       <<"H","A","Y">>,
       <<"M","u","u","t","o">>,
       <<"F","e","r","m"," ","L","i","v","i","n","g">>,
       <<"M","e","n","u">>,
       <<"&","T","r","a","d","i","t","i","o","n">>,
       <<"N","o","r","m","a","n","n"," ","C","o","p","e","n","h","a","g","e","n">>,
       <<"H","a","y">>,
       <<"V","i","t","r","a">> >>

None    == <<>>
Some(v) == <<v>>

(* ---------------- get_products: the body of the for loop ---------------- *)
\* p.get("brand") or ""  : a record without the key, or with a null or
\* empty brand, gives ""
RawBrand(p) == IF "brand" \in DOMAIN p THEN p.brand ELSE <<>>

\* line 53: the record receives a synthesized brand
NeedsBrand(p) == p.category = S_home_decoration /\ RawBrand(p) = <<>>

\* lines 52-54
BrandNeverAssigned(p, home_deco_idx) == RawBrand(p)
Brand(p, home_deco_idx) ==
    IF NeedsBrand(p)
    THEN HOME_DECO_BRANDS[(home_deco_idx % Len(HOME_DECO_BRANDS)) + 1]
    ELSE RawBrand(p)

\* line 60
NormalizeCategory(c) == StrTitle(ReplaceHyphen(c))

\* lines 56-66
MakeProduct(p, brand) ==
    [id          |-> StrOfInt(p.id),
     name        |-> p.title,
     brand       |-> brand,
     category    |-> NormalizeCategory(p.category),
     price       |-> p.price,
     description |-> p.description,
     rating      |-> p.rating,
     stock       |-> p.stock,
     image       |-> p.thumbnail]

\* one iteration of the loop of lines 47-66 on the loop state
\* st = [products, home_deco_idx]
LoopBodyCountsEveryProduct(st, p) ==
    IF p.category \in EXCLUDED_CATEGORIES
    THEN st
    ELSE [products      |-> Append(st.products,
                                   MakeProduct(p, Brand(p, st.home_deco_idx))),
          home_deco_idx |-> st.home_deco_idx + 1]
LoopBody(st, p) ==
    IF p.category \in EXCLUDED_CATEGORIES
    THEN st
    ELSE [products      |-> Append(st.products,
                                   MakeProduct(p, Brand(p, st.home_deco_idx))),
          home_deco_idx |-> IF NeedsBrand(p) THEN st.home_deco_idx + 1
                                             ELSE st.home_deco_idx]

\* lines 45-66 run to completion on one upstream response
RECURSIVE Loop(_, _, _)
Loop(st, data, i) ==
    IF i > Len(data) THEN st ELSE Loop(LoopBody(st, data[i]), data, i + 1)

Transform(data) == Loop([products |-> <<>>, home_deco_idx |-> 0], data, 1).products

(* ------------------------- upstream responses -------------------------- *)
S_lamp    == <<"L","a","m","p">>
S_vase    == <<"V","a","s","e">>
S_rice    == <<"R","i","c","e">>
S_pan     == <<"P","a","n">>
S_macbook == <<"M","a","c","B","o","o","k">>
S_laptops == <<"l","a","p","t","o","p","s">>
S_vitra   == <<"V","i","t","r","a">>
S_apple   == <<"A","p","p","l","e">>

\* raw records of data["products"]
RawLamp ==          \* home-decoration, no brand key
    [id |-> 1, title |-> S_lamp, category |-> S_home_decoration,
     price |-> 30, description |-> <<"o","a","k">>, rating |-> 4, stock |-> 5,
     thumbnail |-> <<"l">>]
RawVase ==          \* home-decoration with its own brand, id of RawLamp
    [id |-> 1, title |-> S_vase, category |-> S_home_decoration,
     brand |-> S_vitra,
     price |-> 80, description |-> <<"t","a","l","l">>, rating |-> 5, stock |-> 2,
     thumbnail |-> <<"v">>]
RawVaseSpaced ==    \* category already written with a space, empty brand
    [id |-> 2, title |-> S_vase,
     category |-> <<"h","o","m","e"," ","d","e","c","o","r","a","t","i","o","n">>,
     brand |-> <<>>,
     price |-> 80, description |-> <<"t","a","l","l">>, rating |-> 5, stock |-> 2,
     thumbnail |-> <<"v">>]
RawRice ==
    [id |-> 3, title |-> S_rice, category |-> S_groceries,
     brand |-> <<>>,
     price |-> 2, description |-> <<"d","r","y">>, rating |-> 3, stock |-> 9,
     thumbnail |-> <<"r">>]
RawPan ==
    [id |-> 4, title |-> S_pan, category |-> S_kitchen_accessories,
     price |-> 20, description |-> <<"i","r","o","n">>, rating |-> 4, stock |-> 1,
     thumbnail |-> <<"p">>]
RawMacBook ==
    [id |-> 12, title |-> S_macbook, category |-> S_laptops,
     brand |-> S_apple,
     price |-> 999, description |-> <<"t","h","i","n">>, rating |-> 5, stock |-> 3,
     thumbnail |-> <<"m">>]
RawNoBrandLaptop == \* another category, no brand
    [id |-> 2, title |-> S_macbook, category |-> S_laptops,
     price |-> 500, description |-> <<"o","l","d">>, rating |-> 2, stock |-> 0,
     thumbnail |-> <<"n">>]

RawPool == {RawLamp, RawVase, RawVaseSpaced, RawRice, RawPan, RawMacBook,
            RawNoBrandLaptop}

BoundedSeq(S, n) == UNION {[1..m -> S] : m \in 0..n}

\* n brandless home-decoration records with ids 101, 102, ...
DecoRun(n) == [i \in 1..n |-> [RawLamp EXCEPT !.id = 100 + i]]
\* s with record r inserted after position j
InsertAt(s, j, r) == SubSeq(s, 1, j) \o <<r>> \o SubSeq(s, j + 1, Len(s))

\* long enough for the round-robin index to wrap
LongResponses ==
    {InsertAt(DecoRun(n), j, r) :
        n \in {MaxDeco - 1, MaxDeco}, j \in {0, 1, MaxDeco - 2}, r \in RawPool}

RawResponses == BoundedSeq(RawPool, MaxRecords) \cup LongResponses

\* what the upstream serves while callers race
UpstreamResponses == {<<RawLamp, RawRice, RawMacBook>>, <<RawMacBook>>}

(* ------------------------------- state --------------------------------- *)
Callers == 1..NumCallers

VARIABLES
    upstream,       \* the catalog the remote source currently serves
    cache,          \* _cache: None or Some(list of products)
    pc,             \* per caller: where its get_products call stands
    data,           \* per caller: data["products"] of its response
    products,       \* per caller: the local list being built
    home_deco_idx,  \* per caller: the local counter
    pos,            \* per caller: records of data consumed by the loop
    ret,            \* per caller: Some(returned list) once the call returned
    fetched,        \* per caller: the current call issued an upstream fetch
    afterLoad,      \* per caller: the current call started after a load completed
    fetches,        \* upstream fetches issued so far
    calls,          \* get_products calls started so far
    anyFailed,      \* some fetch has failed
    firstLoaded,    \* Some(list stored by the first call that populated the cache)
    fproducts,      \* filter_products: the products argument
    fquery,         \* filter_products: the query argument
    fcategory,      \* filter_products: the category argument
    fresults,       \* filter_products: Some(returned list) once it returned
    resp            \* Some(what the last request handler computed and returned)

vars == <<upstream, cache, pc, data, products, home_deco_idx, pos, ret,
          fetched, afterLoad, fetches, calls, anyFailed, firstLoaded,
          fproducts, fquery, fcategory, fresults, resp>>

apiVars == <<resp>>
filterVars == <<fproducts, fquery, fcategory, fresults>>
callerVars == <<upstream, cache, pc, data, products, home_deco_idx, pos, ret,
                fetched, afterLoad, fetches, calls, anyFailed, firstLoaded>>

InitFilter ==
    /\ fproducts = <<>>
    /\ fquery = <<>>
    /\ fcategory = <<>>
    /\ fresults = None

InitApi == resp = None

InitCallers ==
    /\ cache = None
    /\ pc = [p \in Callers |-> "idle"]
    /\ data = [p \in Callers |-> <<>>]
    /\ products = [p \in Callers |-> <<>>]
    /\ home_deco_idx = [p \in Callers |-> 0]
    /\ pos = [p \in Callers |-> 0]
    /\ ret = [p \in Callers |-> None]
    /\ fetched = [p \in Callers |-> FALSE]
    /\ afterLoad = [p \in Callers |-> FALSE]
    /\ fetches = 0
    /\ calls = 0
    /\ anyFailed = FALSE
    /\ firstLoaded = None

Init == upstream \in UpstreamResponses /\ InitCallers /\ InitFilter /\ InitApi

(* --------------------------- get_products ------------------------------ *)
\* lines 38-43: the cache test; a hit returns the cached list, a miss
\* issues the request and suspends at the await
Call(p) ==
    /\ pc[p] \in {"idle", "done", "failed"}
    /\ calls < MaxCalls
    /\ calls' = calls + 1
    /\ afterLoad' = [afterLoad EXCEPT ![p] = (firstLoaded # None)]
    /\ data' = [data EXCEPT ![p] = <<>>]
    /\ products' = [products EXCEPT ![p] = <<>>]
    /\ home_deco_idx' = [home_deco_idx EXCEPT ![p] = 0]
    /\ pos' = [pos EXCEPT ![p] = 0]
    /\ IF cache # None
       THEN /\ ret' = [ret EXCEPT ![p] = Some(cache[1])]
            /\ pc' = [pc EXCEPT ![p] = "done"]
            /\ fetched' = [fetched EXCEPT ![p] = FALSE]
            /\ UNCHANGED fetches
       ELSE /\ ret' = [ret EXCEPT ![p] = None]
            /\ pc' = [pc EXCEPT ![p] = "fetching"]
            /\ fetched' = [fetched EXCEPT ![p] = TRUE]
            /\ fetches' = fetches + 1
    /\ resp' = None      \* a new request: no response yet
    /\ UNCHANGED <<filterVars, upstream, cache, anyFailed, firstLoaded>>

\* lines 43-46: the response arrives, r.json(), products = [], home_deco_idx = 0
FetchOk(p) ==
    /\ pc[p] = "fetching"
    /\ data' = [data EXCEPT ![p] = upstream]
    /\ products' = [products EXCEPT ![p] = <<>>]
    /\ home_deco_idx' = [home_deco_idx EXCEPT ![p] = 0]
    /\ pos' = [pos EXCEPT ![p] = 0]
    /\ pc' = [pc EXCEPT ![p] = "loop"]
    /\ UNCHANGED <<apiVars, filterVars, upstream, cache, ret, fetched, afterLoad, fetches, calls,
                   anyFailed, firstLoaded>>

\* line 43: client.get raises (transport error, timeout); nothing catches it
FetchFailCachesEmpty(p) ==
    /\ pc[p] = "fetching"
    /\ pc' = [pc EXCEPT ![p] = "failed"]
    /\ anyFailed' = TRUE
    /\ cache' = Some(<<>>)
    /\ UNCHANGED <<apiVars, filterVars, upstream, data, products, home_deco_idx,
                   pos, ret, fetched, afterLoad, fetches, calls, firstLoaded>>
FetchFail(p) ==
    /\ pc[p] = "fetching"
    /\ pc' = [pc EXCEPT ![p] = "failed"]
    /\ anyFailed' = TRUE
    /\ UNCHANGED <<apiVars, filterVars, upstream, cache, data, products, home_deco_idx, pos, ret,
                   fetched, afterLoad, fetches, calls, firstLoaded>>

\* lines 47-66: one iteration; the list is local to the call
LoopStepPublishing(p) ==
    /\ pc[p] = "loop"
    /\ pos[p] < Len(data[p])
    /\ LET st == LoopBody([products |-> products[p],
                           home_deco_idx |-> home_deco_idx[p]],
                          data[p][pos[p] + 1])
       IN /\ products' = [products EXCEPT ![p] = st.products]
          /\ home_deco_idx' = [home_deco_idx EXCEPT ![p] = st.home_deco_idx]
          /\ cache' = Some(st.products)
    /\ pos' = [pos EXCEPT ![p] = pos[p] + 1]
    /\ UNCHANGED <<apiVars, filterVars, upstream, pc, data, ret, fetched, afterLoad, fetches,
                   calls, anyFailed, firstLoaded>>
LoopStep(p) ==
    /\ pc[p] = "loop"
    /\ pos[p] < Len(data[p])
    /\ LET st == LoopBody([products |-> products[p],
                           home_deco_idx |-> home_deco_idx[p]],
                          data[p][pos[p] + 1])
       IN /\ products' = [products EXCEPT ![p] = st.products]
          /\ home_deco_idx' = [home_deco_idx EXCEPT ![p] = st.home_deco_idx]
    /\ pos' = [pos EXCEPT ![p] = pos[p] + 1]
    /\ UNCHANGED <<apiVars, filterVars, upstream, cache, pc, data, ret, fetched, afterLoad, fetches,
                   calls, anyFailed, firstLoaded>>

\* lines 67-68: _cache = products; return products
Store(p) ==
    /\ pc[p] = "loop"
    /\ pos[p] = Len(data[p])
    /\ cache' = Some(products[p])
    /\ ret' = [ret EXCEPT ![p] = Some(products[p])]
    /\ pc' = [pc EXCEPT ![p] = "done"]
    /\ firstLoaded' = IF firstLoaded = None THEN Some(products[p]) ELSE firstLoaded
    /\ UNCHANGED <<apiVars, filterVars, upstream, data, products, home_deco_idx, pos, fetched,
                   afterLoad, fetches, calls, anyFailed>>

\* the third-party catalog is edited between two requests
UpstreamChange ==
    /\ \E r \in UpstreamResponses \ {upstream} : upstream' = r
    /\ UNCHANGED <<apiVars, filterVars, cache, pc, data, products, home_deco_idx, pos, ret,
                   fetched, afterLoad, fetches, calls, anyFailed, firstLoaded>>

Next ==
    \/ \E p \in Callers : Call(p)
    \/ \E p \in Callers : FetchOk(p)
    \/ \E p \in Callers : FetchFail(p)
    \/ \E p \in Callers : LoopStep(p)
    \/ \E p \in Callers : Store(p)
    \/ UpstreamChange

Spec == Init /\ [][Next]_vars

\* one caller loading one arbitrary upstream response
InitLoad == upstream \in RawResponses /\ InitCallers /\ InitFilter /\ InitApi

NextLoad ==
    \/ Call(1)
    \/ FetchOk(1)
    \/ FetchFail(1)
    \/ LoopStep(1)
    \/ Store(1)

SpecLoad == InitLoad /\ [][NextLoad]_vars

(* --------------------------- filter_products --------------------------- *)
\* p.get("brand", "")
ProductBrand(p) == IF "brand" \in DOMAIN p THEN p.brand ELSE <<>>

\* lines 75-78, q already lower-cased
KeywordMatch(p, q) ==
    \/ PyIn(q, StrLower(p.name))
    \/ PyIn(q, StrLower(p.description))
    \/ PyIn(q, StrLower(p.category))
    \/ PyIn(q, StrLower(ProductBrand(p)))

\* line 80
CategoryMatch(p, category) == StrLower(p.category) = StrLower(category)

\* lines 70-81
filter_products_CaseSensitiveQuery(prods, query, category) ==
    LET afterQuery ==
            IF query # <<>>
            THEN SelectSeq(prods, LAMBDA p : KeywordMatch(p, query))
            ELSE prods
    IN  IF category # <<>>
        THEN SelectSeq(afterQuery, LAMBDA p : CategoryMatch(p, category))
        ELSE afterQuery
filter_products_CategoryOverAll(prods, query, category) ==
    LET afterQuery ==
            IF query # <<>>
            THEN SelectSeq(prods, LAMBDA p : KeywordMatch(p, StrLower(query)))
            ELSE prods
    IN  IF category # <<>>
        THEN SelectSeq(prods, LAMBDA p : CategoryMatch(p, category))
        ELSE afterQuery
filter_products_AlwaysCategory(prods, query, category) ==
    LET afterQuery ==
            IF query # <<>>
            THEN SelectSeq(prods, LAMBDA p : KeywordMatch(p, StrLower(query)))
            ELSE prods
    IN  SelectSeq(afterQuery, LAMBDA p : CategoryMatch(p, category))
filter_products(prods, query, category) ==
    LET afterQuery ==
            IF query # <<>>
            THEN SelectSeq(prods, LAMBDA p : KeywordMatch(p, StrLower(query)))
            ELSE prods
    IN  IF category # <<>>
        THEN SelectSeq(afterQuery, LAMBDA p : CategoryMatch(p, category))
        ELSE afterQuery

\* hand-built fixture products
S_Smartphones == <<"S","m","a","r","t","p","h","o","n","e","s">>
S_Laptops     == <<"L","a","p","t","o","p","s">>

FixIPhone ==
    [id |-> <<"1">>, name |-> <<"i","P","h","o","n","e">>, brand |-> S_apple,
     category |-> S_Smartphones, price |-> 900,
     description |-> <<"O","L","E","D">>, rating |-> 5, stock |-> 4,
     image |-> <<"i">>]
FixMacBook ==
    [id |-> <<"2">>, name |-> S_macbook, brand |-> S_apple,
     category |-> S_Laptops, price |-> 999,
     description |-> <<"t","h","i","n">>, rating |-> 5, stock |-> 3,
     image |-> <<"m">>]
FixGalaxy ==        \* empty brand
    [id |-> <<"3">>, name |-> <<"G","a","l","a","x","y">>, brand |-> <<>>,
     category |-> S_Smartphones, price |-> 300,
     description |-> <<"a","p","p","s">>, rating |-> 4, stock |-> 7,
     image |-> <<"g">>]
FixLamp ==          \* no brand key
    [id |-> <<"4">>, name |-> S_lamp,
     category |-> <<"H","o","m","e"," ","D","e","c","o","r","a","t","i","o","n">>,
     price |-> 30, description |-> <<"o","a","k">>, rating |-> 4, stock |-> 5,
     image |-> <<"l">>]

FixturePool == {FixIPhone, FixMacBook, FixGalaxy, FixLamp}

Keywords ==
    {<<>>, <<"a","p","p","l","e">>, <<"A","P","P">>, <<"p","h","o","n","e">>,
     <<"l","a">>, <<"x","y","z">>}

QueryCategories ==
    {<<>>, <<"s","m","a","r","t","p","h","o","n","e","s">>, S_Laptops,
     <<"L","A","P","T","O","P","S">>, <<"l","a","p">>}

InitFilterSpec ==
    /\ upstream = <<>>
    /\ InitCallers
    /\ fproducts \in BoundedSeq(FixturePool, MaxCatalog)
    /\ fquery = <<>>
    /\ fcategory = <<>>
    /\ fresults = None
    /\ InitApi

\* one call filter_products(fproducts, q, c)
Filter ==
    /\ fresults = None
    /\ \E q \in Keywords, c \in QueryCategories :
          /\ fquery' = q
          /\ fcategory' = c
          /\ fresults' = Some(filter_products(fproducts, q, c))
    /\ UNCHANGED <<apiVars, callerVars, fproducts>>

SpecFilter == InitFilterSpec /\ [][Filter]_vars

(* ---------------------------- request handlers ------------------------- *)
Min(a, b) == IF a < b THEN a ELSE b
Max(a, b) == IF a > b THEN a ELSE b

\* s[:n], n of either sign
PySliceTo(s, n) ==
    IF n >= 0 THEN SubSeq(s, 1, Min(n, Len(s)))
    ELSE SubSeq(s, 1, Max(0, Len(s) + n))

S_product_url ==
    <<"h", "t", "t", "p", "s", ":", "/", "/",
      "m", "i", "l", "a", "m", "a", "r", "t", "-", "l", "a", "b", "s", ".", 
      "o", "n", "r", "e", "n", "d", "e", "r", ".", "c", "o", "m", "/", "p", "r", "o", "d", "u", "c", "t", "/">>
S_Product_not_found ==
    <<"P", "r", "o", "d", "u", "c", "t", " ", "n", "o", "t", " ", "f", "o", "u", "n", "d">>

\* line 557: min(max_results, 10)
SearchLimit(max_results) == Min(max_results, 10)

\* lines 559-570
Slim(p) ==
    [id          |-> p.id,
     name        |-> p.name,
     brand       |-> p.brand,
     category    |-> p.category,
     price       |-> p.price,
     rating      |-> p.rating,
     stock       |-> p.stock,
     description |-> PySliceTo(p.description, 100),
     image       |-> p.image,
     url         |-> S_product_url \o p.id]

\* lines 557-573, after get_products returned prods
search_products(prods, query, category, max_results) ==
    LET results == PySliceTo(filter_products(prods, query, category),
                             SearchLimit(max_results))
        slim    == [i \in 1..Len(results) |-> Slim(results[i])]
    IN  [total |-> Len(slim), products |-> slim]

\* line 579: next((p for p in products if p["id"] == product_id), None)
FindLast(prods, product_id) ==
    LET S == {i \in 1..Len(prods) : prods[i].id = product_id}
    IN  IF S = {} THEN None
        ELSE Some(prods[CHOOSE i \in S : \A j \in S : j <= i])
FindFirst(prods, product_id) ==
    LET S == {i \in 1..Len(prods) : prods[i].id = product_id}
    IN  IF S = {} THEN None
        ELSE Some(prods[CHOOSE i \in S : \A j \in S : i <= j])

\* lines 579-582, after get_products returned prods
get_product(prods, product_id) ==
    LET product == FindFirst(prods, product_id)
    IN  IF product = None
        THEN [status_code |-> 404, content |-> [error |-> S_Product_not_found]]
        ELSE [status_code |-> 200,
              content |-> [f \in (DOMAIN product[1]) \cup {"url"} |->
                              IF f = "url" THEN S_product_url \o product_id
                              ELSE product[1][f]]]

\* str.split(): the maximal runs of non-blank characters
RECURSIVE SplitFrom(_, _, _, _)
SplitFrom(s, i, word, acc) ==
    IF i > Len(s)
    THEN IF word = <<>> THEN acc ELSE Append(acc, word)
    ELSE IF s[i] = " "
         THEN SplitFrom(s, i + 1, <<>>,
                        IF word = <<>> THEN acc ELSE Append(acc, word))
         ELSE SplitFrom(s, i + 1, Append(word, s[i]), acc)

Split(s) == SplitFrom(s, 1, <<>>, <<>>)

\* line 766
stopwords ==
    {<<"s", "h", "o", "w">>, <<"m", "e">>, <<"f", "i", "n", "d">>,
     <<"g", "e", "t">>, <<"i">>, <<"w", "a", "n", "t">>,
     <<"n", "e", "e", "d">>, <<"l", "o", "o", "k", "i", "n", "g">>,
     <<"f", "o", "r">>, <<"s", "o", "m", "e">>, <<"a">>, <<"a", "n">>,
     <<"t", "h", "e">>, <<"p", "l", "e", "a", "s", "e">>,
     <<"c", "a", "n">>, <<"y", "o", "u">>, <<"h", "a", "v", "e">>,
     <<"d", "o">>, <<"w", "h", "a", "t">>, <<"a", "n", "y">>, <<"i", "s">>,
     <<"a", "r", "e">>, <<"w", "i", "t", "h">>,
     <<"u", "n", "d", "e", "r">>, <<"o", "v", "e", "r">>,
     <<"c", "h", "e", "a", "p">>, <<"b", "e", "s", "t">>,
     <<"g", "o", "o", "d">>}

\* lines 764-767
ChatKeywords(message) ==
    SelectSeq(Split(StrLower(message)),
              LAMBDA w : w \notin stopwords /\ Len(w) > 2)

\* lines 773-776
ChatMatch(p, kw) ==
    \/ PyIn(kw, StrLower(p.name))
    \/ PyIn(kw, StrLower(p.category))
    \/ PyIn(kw, StrLower(ProductBrand(p)))
    \/ PyIn(kw, StrLower(p.description))

\* lines 772-777: sum(1 for kw in keywords if ...)
RECURSIVE ScoreFrom(_, _, _)
ScoreFrom(p, keywords, k) ==
    IF k > Len(keywords) THEN 0
    ELSE (IF ChatMatch(p, keywords[k]) THEN 1 ELSE 0)
         + ScoreFrom(p, keywords, k + 1)

Score(p, keywords) == ScoreFrom(p, keywords, 1)

\* lines 771-779: the (score, p) pairs with score > 0, in catalog order;
\* a product is named by its position in the catalog
RECURSIVE ScoredFrom(_, _, _)
ScoredFrom(prods, keywords, i) ==
    IF i > Len(prods) THEN <<>>
    ELSE LET sc == Score(prods[i], keywords)
         IN  (IF sc > 0 THEN <<[score |-> sc, idx |-> i]>> ELSE <<>>)
             \o ScoredFrom(prods, keywords, i + 1)

\* line 780: list.sort(key=lambda x: -x[0]) is stable: x goes behind every
\* pair of the sorted prefix whose score is at least its own
InsertByScore(sorted, x) ==
    LET n == Cardinality({j \in 1..Len(sorted) : sorted[j].score >= x.score})
    IN  SubSeq(sorted, 1, n) \o <<x>> \o SubSeq(sorted, n + 1, Len(sorted))

RECURSIVE SortFrom(_, _, _)
SortFrom(pairs, i, sorted) ==
    IF i > Len(pairs) THEN sorted
    ELSE SortFrom(pairs, i + 1, InsertByScore(sorted, pairs[i]))

SortByScoreUnsorted(pairs) == pairs
SortByScore(pairs) == SortFrom(pairs, 1, <<>>)

\* lines 769-781: positions of the keyword candidates
KeywordPass(prods, keywords) ==
    IF keywords = <<>> THEN <<>>
    ELSE LET top == PySliceTo(SortByScore(ScoredFrom(prods, keywords, 1)), 4)
         IN  [n \in 1..Len(top) |-> top[n].idx]

S_under_dollar == <<"u", "n", "d", "e", "r", " ", "$">>

IsDigitCh(c) == \E d \in 1..Len(Digits) : Digits[d] = c
DigitVal(c)  == (CHOOSE d \in 1..Len(Digits) : Digits[d] = c) - 1

\* int of the run of digits of s that starts at position i, given the value
\* of the digits already read
RECURSIVE DigitsFrom(_, _, _)
DigitsFrom(s, i, val) ==
    IF i <= Len(s) /\ IsDigitCh(s[i])
    THEN DigitsFrom(s, i + 1, 10 * val + DigitVal(s[i]))
    ELSE val

\* line 785: re.search(r"under \$(\d+)", s): the leftmost position where
\* "under $" is followed by a digit; the group is the whole run of digits
PriceMatch(s) ==
    LET at == {i \in 1..Len(s) :
                  /\ i + Len(S_under_dollar) <= Len(s)
                  /\ SubSeq(s, i, i + Len(S_under_dollar) - 1) = S_under_dollar
                  /\ IsDigitCh(s[i + Len(S_under_dollar)])}
    IN  IF at = {} THEN None
        ELSE LET first == CHOOSE i \in at : \A j \in at : i <= j
             IN  Some(DigitsFrom(s, first + Len(S_under_dollar), 0))

\* line 788: [p for p in (matched or products) if p["price"] <= limit][:4]
PriceStepStrictlyBelow(matched, prods, limit) ==
    LET base == IF matched # <<>> THEN matched ELSE [i \in 1..Len(prods) |-> i]
    IN  PySliceTo(SelectSeq(base, LAMBDA i : prods[i].price < limit), 4)
PriceStep(matched, prods, limit) ==
    LET base == IF matched # <<>> THEN matched ELSE [i \in 1..Len(prods) |-> i]
    IN  PySliceTo(SelectSeq(base, LAMBDA i : prods[i].price <= limit), 4)

\* line 796: min(3, len(products))
SampleSizeFixed(n) == 3
SampleSize(n) == Min(3, n)

\* random.sample(population of n, k): any k distinct positions in any order
Samples(n, k) ==
    {s \in [1..k -> 1..n] : \A a, b \in 1..k : a # b => s[a] # s[b]}

\* lines 791-792, 797
FoundReply(prods, matched) ==
    [kind  |-> "found",
     count |-> Len(matched),
     names |-> [n \in 1..Min(2, Len(matched)) |-> prods[matched[n]].name],
     more  |-> Len(matched) > 2]
SuggestReply == [kind |-> "suggest"]

\* lines 764-799 after get_products returned prods; smp is the outcome of
\* random.sample, used only on the suggestion path.  req.history is never
\* read.  The locals keywords, matched (line 781), limit and matched
\* (line 788) are kept in the result next to the response.
chat(prods, message, smp) ==
    LET keywords   == ChatKeywords(message)
        candidates == KeywordPass(prods, keywords)
        limit      == PriceMatch(StrLower(message))
        priced     == IF limit # None
                      THEN PriceStep(candidates, prods, limit[1])
                      ELSE candidates
        raised     == priced = <<>> /\ SampleSize(Len(prods)) > Len(prods)
        matched    == IF priced # <<>> THEN priced
                      ELSE IF raised THEN <<>> ELSE smp
    IN  [message    |-> message,
         keywords   |-> keywords,
         candidates |-> candidates,
         limit      |-> limit,
         priced     |-> priced,
         raised     |-> raised,
         reply      |-> IF priced # <<>> THEN FoundReply(prods, priced)
                        ELSE SuggestReply,
         picked     |-> matched,
         products   |-> [n \in 1..Len(matched) |-> prods[matched[n]]]]

(* ------------------------- requests that are sent ---------------------- *)
RawLaptop(id, price)  == [RawNoBrandLaptop EXCEPT !.id = id, !.price = price]
RawMacBookAt(id, price) == [RawMacBook EXCEPT !.id = id, !.price = price]

ApiResponses ==
    {<<RawLamp, RawVase, RawRice, RawMacBook, RawNoBrandLaptop>>,
     <<RawLaptop(2, 500), RawMacBook, RawLaptop(5, 450), RawLamp,
       RawMacBookAt(6, 400), RawLaptop(7, 500), RawMacBookAt(8, 999)>>,
     <<RawMacBook>>,
     <<RawRice>>}

MaxResultsValues == {-1, 0, 2, 5, 11}

ProductIds == {<<"1">>, <<"2">>, <<"1", "2">>, <<"9", "9">>}

Messages ==
    {<<>>,
     <<"s", "h", "o", "w", " ", "m", "e", " ", "t", "h", "e">>,
     <<"m", "a", "c", "b", "o", "o", "k", " ", "t", "h", "i", "n", " ", "a", "p", "p", "l", "e">>,
     <<"M", "a", "c", "B", "o", "o", "k", " ", "u", "n", "d", "e", "r", " ", "$", "5", "0", "0">>,
     <<"l", "a", "m", "p", " ", "u", "n", "d", "e", "r", " ", "$", "2", "0">>,
     <<"x", "y", "z", " ", "u", "n", "d", "e", "r", " ", "$", "8", "0">>,
     <<"U", "n", "d", "e", "r", " ", "$", "9", "9", "9">>,
     <<"v", "a", "s", "e", " ", "v", "a", "s", "e", " ", "o", "a", "k">>,
     <<"u", "n", "d", "e", "r", " ", "$">>}

\* line 790 takes the else branch: random.sample is called
Suggests(prods, message) ==
    LET candidates == KeywordPass(prods, ChatKeywords(message))
        limit      == PriceMatch(StrLower(message))
    IN  (IF limit # None THEN PriceStep(candidates, prods, limit[1])
                         ELSE candidates) = <<>>

\* the handlers below are the part of a request that runs once its
\* `products = await get_products()` has returned (pc[p] = "done")
Returned(p) == pc[p] = "done" /\ ret[p] # None

Finish(p, r) ==
    /\ resp' = Some(r)
    /\ pc' = [pc EXCEPT ![p] = "idle"]
    /\ UNCHANGED <<filterVars, upstream, cache, data, products, home_deco_idx,
                   pos, ret, fetched, afterLoad, fetches, calls, anyFailed,
                   firstLoaded>>

\* GET /api/products/search
SearchProducts(p) ==
    /\ Returned(p)
    /\ \E q \in Keywords, c \in QueryCategories, m \in MaxResultsValues :
          Finish(p, [kind |-> "search", catalog |-> ret[p][1],
                     query |-> q, category |-> c, max_results |-> m,
                     body |-> search_products(ret[p][1], q, c, m)])

\* GET /api/products/{product_id}
GetProduct(p) ==
    /\ Returned(p)
    /\ \E id \in ProductIds :
          Finish(p, [kind |-> "product", catalog |-> ret[p][1],
                     product_id |-> id,
                     body |-> get_product(ret[p][1], id)])

\* POST /api/chat
Chat(p) ==
    /\ Returned(p)
    /\ \E message \in Messages :
          LET n == Len(ret[p][1])
              k == SampleSize(n)
          IN  \E smp \in (IF Suggests(ret[p][1], message) /\ k <= n
                          THEN Samples(n, k) ELSE {<<>>}) :
                 Finish(p, [kind |-> "chat", catalog |-> ret[p][1],
                            body |-> chat(ret[p][1], message, smp)])

InitApiSpec == upstream \in ApiResponses /\ InitCallers /\ InitFilter /\ InitApi

NextApi ==
    \/ Call(1)
    \/ FetchOk(1)
    \/ FetchFail(1)
    \/ LoopStep(1)
    \/ Store(1)
    \/ SearchProducts(1)
    \/ GetProduct(1)
    \/ Chat(1)

SpecApi == InitApiSpec /\ [][NextApi]_vars

(* ------------------------------ properties ----------------------------- *)
\* the raw records of r that are not dropped, by position
Kept(r) ==
    {i \in 1..Len(r) :
        r[i].category # S_groceries /\ r[i].category # S_kitchen_accessories}

\* position in the catalog of the product made from the kept record r[i]
Rank(r, i) == Cardinality({j \in Kept(r) : j <= i})

\* the fields copied one to one
Corresponds(prod, raw) ==
    /\ prod.name = raw.title
    /\ prod.price = raw.price
    /\ prod.description = raw.description
    /\ prod.rating = raw.rating
    /\ prod.stock = raw.stock
    /\ prod.image = raw.thumbnail

\* list holds one product per kept record of r, in source order, and no other
CompleteFor(list, r) ==
    /\ Len(list) = Cardinality(Kept(r))
    /\ \A i \in Kept(r) : Corresponds(list[Rank(r, i)], r[i])

Brandless(raw) == "brand" \notin DOMAIN raw \/ raw.brand = <<>>

\* C1: the upstream fetch is issued at most once, also when several calls
\* start before the cache is populated (no fetch having failed).
C1_FetchAtMostOnce == ~anyFailed => fetches <= 1

\* C2: the cache is None or the complete catalog of one upstream response,
\* and every returned list is the complete catalog of one upstream response.
C2_NeverPartial ==
    /\ cache # None => \E r \in UpstreamResponses : CompleteFor(cache[1], r)
    /\ \A p \in Callers :
          ret[p] # None => \E r \in UpstreamResponses : CompleteFor(ret[p][1], r)

\* a caller is in the middle of its loop with a partial list while the cache
\* is populated and a call has returned
C2_Witness ==
    /\ cache # None
    /\ \E p, q \in Callers :
          /\ pc[p] = "loop" /\ 0 < pos[p] /\ pos[p] < Len(data[p])
          /\ Len(products[p]) > 0
          /\ ~CompleteFor(products[p], data[p])
          /\ pc[q] = "done" /\ ret[q] # None

\* C3: a call that starts after a call has populated the cache returns the
\* sequence that call stored and issues no upstream fetch.
C3_SameSequenceAfterLoad ==
    \A p \in Callers :
        (pc[p] = "done" /\ afterLoad[p]) => (ret[p] = firstLoaded /\ ~fetched[p])

\* C4: no excluded raw record has a product and every other raw record has
\* exactly one, in source order.
C4_ExclusionAndOrder ==
    cache # None => CompleteFor(cache[1], upstream)

\* a response with an excluded record between two kept ones has been loaded
C4_Witness ==
    /\ cache # None
    /\ \E i, j, k \in 1..Len(upstream) :
          /\ i < j /\ j < k
          /\ i \in Kept(upstream) /\ j \notin Kept(upstream) /\ k \in Kept(upstream)

S_Home_Decoration ==
    <<"H","o","m","e"," ","D","e","c","o","r","a","t","i","o","n">>

\* C5 as stated: every product whose normalized category is "Home Decoration"
\* has a non-empty brand.
C5_HomeDecorationHasBrand ==
    cache # None =>
        \A n \in 1..Len(cache[1]) :
            cache[1][n].category = S_Home_Decoration => cache[1][n].brand # <<>>

\* C5 amended: every product made from a raw record whose raw category is
\* exactly "home-decoration" has a non-empty brand.
C5_RawHomeDecorationHasBrand ==
    cache # None =>
        /\ Len(cache[1]) = Cardinality(Kept(upstream))
        /\ \A i \in Kept(upstream) :
              upstream[i].category = S_home_decoration =>
                  cache[1][Rank(upstream, i)].brand # <<>>

\* a brandless home-decoration record has been loaded
C5_Witness ==
    /\ cache # None
    /\ \E i \in 1..Len(upstream) :
          upstream[i].category = S_home_decoration /\ Brandless(upstream[i])

\* number of brandless home-decoration records before position i
DecoBefore(r, i) ==
    Cardinality({j \in 1..(i - 1) :
                    r[j].category = S_home_decoration /\ Brandless(r[j])})

\* C6: the k-th brandless home-decoration record gets HOME_DECO_BRANDS[k mod 10]
\* and every other kept record keeps its own brand.
C6_RoundRobinBrand ==
    cache # None =>
        /\ Len(cache[1]) = Cardinality(Kept(upstream))
        /\ \A i \in Kept(upstream) :
              cache[1][Rank(upstream, i)].brand =
                  IF upstream[i].category = S_home_decoration /\ Brandless(upstream[i])
                  THEN HOME_DECO_BRANDS[(DecoBefore(upstream, i) % 10) + 1]
                  ELSE IF "brand" \in DOMAIN upstream[i] THEN upstream[i].brand
                       ELSE <<>>

\* the counter wrapped: the 11th brandless home-decoration record was loaded
\* in a response that also holds a record that does not advance the counter
C6_Witness ==
    /\ cache # None
    /\ \E i \in Kept(upstream) :
          /\ DecoBefore(upstream, i) = 10
          /\ upstream[i].category = S_home_decoration /\ Brandless(upstream[i])
          /\ cache[1][Rank(upstream, i)].brand = HOME_DECO_BRANDS[1]
    /\ \E j \in 1..Len(upstream) :
          ~(upstream[j].category = S_home_decoration /\ Brandless(upstream[j]))

\* C7: no two products of the cached catalog have the same id.
C7_IdsDistinct ==
    cache # None =>
        \A m, n \in 1..Len(cache[1]) :
            m # n => cache[1][m].id # cache[1][n].id

\* the n-th position of prods at which Match holds
NthOf(S, n) == CHOOSE i \in S : Cardinality({j \in S : j <= i}) = n

\* lowercase(K) is a substring of the lowercased name, description, category
\* or (non-empty) brand
ClaimedMatch(p, K) ==
    LET k == StrLower(K)
    IN  \/ PyIn(k, StrLower(p.name))
        \/ PyIn(k, StrLower(p.description))
        \/ PyIn(k, StrLower(p.category))
        \/ /\ "brand" \in DOMAIN p
           /\ p.brand # <<>>
           /\ PyIn(k, StrLower(p.brand))

\* C8: with a non-empty keyword and no category the result is exactly the
\* matching products, in catalog order.
C8_KeywordExact ==
    (fresults # None /\ fquery # <<>> /\ fcategory = <<>>) =>
        LET M == {i \in 1..Len(fproducts) : ClaimedMatch(fproducts[i], fquery)}
        IN  /\ Len(fresults[1]) = Cardinality(M)
            /\ \A n \in 1..Len(fresults[1]) : fresults[1][n] = fproducts[NthOf(M, n)]

\* an upper-case keyword matched one product through its brand and skipped
\* a product whose brand is empty
C8_Witness ==
    /\ fresults # None /\ fcategory = <<>>
    /\ fquery = <<"A","P","P">>
    /\ Len(fresults[1]) > 0
    /\ Len(fresults[1]) < Len(fproducts)
    /\ \E i \in 1..Len(fproducts) : ProductBrand(fproducts[i]) = <<>>

Range(s) == {s[i] : i \in 1..Len(s)}

\* C9: the result for (K, C) is the intersection, in catalog order, of the
\* results for (K, "") and ("", C).
C9_Intersection ==
    fresults # None =>
        LET byKeyword  == filter_products(fproducts, fquery, <<>>)
            byCategory == filter_products(fproducts, <<>>, fcategory)
        IN  fresults[1] =
                SelectSeq(fproducts,
                          LAMBDA p : p \in Range(byKeyword) /\ p \in Range(byCategory))

\* both filters were given and each removed a product the other kept
C9_Witness ==
    /\ fresults # None /\ fquery # <<>> /\ fcategory # <<>>
    /\ Len(fresults[1]) > 0
    /\ Len(fresults[1]) < Len(filter_products(fproducts, fquery, <<>>))
    /\ Len(fresults[1]) < Len(filter_products(fproducts, <<>>, fcategory))

\* C10: an empty keyword and an empty category return the catalog unchanged.
C10_NoFilter ==
    (fresults # None /\ fquery = <<>> /\ fcategory = <<>>) =>
        fresults[1] = fproducts

\* a catalog of three products, one repeated, went through with no filter
C10_Witness ==
    /\ fresults # None /\ fquery = <<>> /\ fcategory = <<>>
    /\ Len(fproducts) = 3
    /\ fproducts[1] = fproducts[3] /\ fproducts[1] # fproducts[2]

\* C11: the search response is a prefix of the filter result, in catalog
\* order, and the products it returns number at most max_results.
C11_PrefixAtMostMaxResults ==
    (resp # None /\ resp[1].kind = "search") =>
        LET r    == resp[1]
            full == filter_products(r.catalog, r.query, r.category)
            out  == r.body.products
        IN  /\ out # <<>> => Len(out) <= r.max_results
            /\ Len(out) <= Len(full)
            /\ \A n \in 1..Len(out) :
                  /\ out[n].id = full[n].id
                  /\ out[n].name = full[n].name
                  /\ out[n].price = full[n].price

\* C12: the chat handler raises nothing and returns at most 4 products, all
\* of the cached catalog; the empty message has no keyword and gets the
\* suggestion reply.
C12_ChatAtMostFour ==
    (resp # None /\ resp[1].kind = "chat") =>
        LET r == resp[1]
        IN  /\ ~r.body.raised
            /\ Len(r.body.products) <= 4
            /\ cache # None
            /\ \A n \in 1..Len(r.body.products) :
                  \E i \in 1..Len(cache[1]) : r.body.products[n] = cache[1][i]
            /\ r.body.message = <<>> =>
                  /\ r.body.keywords = <<>>
                  /\ r.body.reply.kind = "suggest"

\* the empty message was answered with three suggested products
C12_Witness ==
    /\ resp # None /\ resp[1].kind = "chat"
    /\ resp[1].body.message = <<>>
    /\ resp[1].body.reply.kind = "suggest"
    /\ Len(resp[1].body.products) = 3

\* C13: with "under $N" in the message the price step keeps, in prior order,
\* the first 4 products of price <= N among the keyword candidates, or among
\* the whole catalog when there is no keyword candidate.
C13_PriceStep ==
    (resp # None /\ resp[1].kind = "chat") =>
        LET r    == resp[1].body
            cat  == resp[1].catalog
            said == \E d \in 1..Len(Digits) :
                        PyIn(S_under_dollar \o <<Digits[d]>>, StrLower(r.message))
        IN  /\ said <=> r.limit # None
            /\ r.limit # None =>
                  LET N    == r.limit[1]
                      base == IF r.candidates # <<>> THEN r.candidates
                              ELSE [i \in 1..Len(cat) |-> i]
                      Q    == {k \in 1..Len(base) : cat[base[k]].price <= N}
                  IN  /\ PyIn(S_under_dollar \o StrOfInt(N), StrLower(r.message))
                      /\ \A n \in 1..Len(r.priced) : cat[r.priced[n]].price <= N
                      /\ Len(r.priced) = Min(4, Cardinality(Q))
                      /\ \A n \in 1..Len(r.priced) : r.priced[n] = base[NthOf(Q, n)]
                      /\ r.priced # <<>> => r.picked = r.priced

\* keyword candidates were cut down by the price, one of them costing
\* exactly N
C13_Witness ==
    /\ resp # None /\ resp[1].kind = "chat"
    /\ resp[1].body.limit # None
    /\ resp[1].body.candidates # <<>>
    /\ resp[1].body.priced # <<>>
    /\ Len(resp[1].body.priced) < Len(resp[1].body.candidates)
    /\ \E n \in 1..Len(resp[1].body.priced) :
          resp[1].catalog[resp[1].body.priced[n]].price = resp[1].body.limit[1]

\* C14: 404 with {error: "Product not found"} exactly when no cached product
\* has the id, otherwise the first cached product with that id; the cache is
\* what it was.
C14_ProductLookup ==
    (resp # None /\ resp[1].kind = "product") =>
        LET r == resp[1]
            S == {i \in 1..Len(r.catalog) : r.catalog[i].id = r.product_id}
        IN  /\ cache = Some(r.catalog)
            /\ (r.body.status_code = 404) <=> (S = {})
            /\ S = {} => r.body.content = [error |-> S_Product_not_found]
            /\ S # {} =>
                  \E i \in S :
                      /\ \A j \in S : i <= j
                      /\ \A f \in DOMAIN r.catalog[i] :
                            r.body.content[f] = r.catalog[i][f]

\* two cached products have the requested id and the first one came back
C14_Witness ==
    /\ resp # None /\ resp[1].kind = "product"
    /\ resp[1].body.status_code = 200
    /\ \E i, j \in 1..Len(resp[1].catalog) :
          /\ i < j
          /\ resp[1].catalog[i].id = resp[1].product_id
          /\ resp[1].catalog[j].id = resp[1].product_id
          /\ resp[1].catalog[i] # resp[1].catalog[j]
          /\ resp[1].body.content.name = resp[1].catalog[i].name

\* C15: once the cache is populated no step changes the cached sequence.
C15_CacheNeverChanges == [][cache # None => cache' = cache]_vars

\* number of the tokens that are substrings of a field of the product
ClaimedScore(p, tokens) ==
    Cardinality({k \in 1..Len(tokens) :
        \/ PyIn(tokens[k], StrLower(p.name))
        \/ PyIn(tokens[k], StrLower(p.category))
        \/ PyIn(tokens[k], StrLower(p.brand))
        \/ PyIn(tokens[k], StrLower(p.description))})

\* C16: the keyword candidates are the first 4, by descending score and then
\* by catalog position, of the products with score > 0.
C16_ScoreOrder ==
    (resp # None /\ resp[1].kind = "chat" /\ resp[1].body.keywords # <<>>) =>
        LET cat  == resp[1].catalog
            cand == resp[1].body.candidates
            sc(i) == ClaimedScore(cat[i], resp[1].body.keywords)
            S    == {i \in 1..Len(cat) : sc(i) > 0}
            Before(i, j) == sc(i) > sc(j) \/ (sc(i) = sc(j) /\ i < j)
        IN  /\ Len(cand) = Min(4, Cardinality(S))
            /\ \A n \in 1..Len(cand) : cand[n] \in S
            /\ \A a, b \in 1..Len(cand) : a < b => Before(cand[a], cand[b])
            /\ \A i \in S :
                  (\A n \in 1..Len(cand) : cand[n] # i) =>
                      \A n \in 1..Len(cand) : Before(cand[n], i)

\* more than 4 products scored, a later product outranked an earlier one and
\* two products tied
C16_Witness ==
    /\ resp # None /\ resp[1].kind = "chat"
    /\ Len(resp[1].body.candidates) = 4
    /\ Cardinality({i \in 1..Len(resp[1].catalog) :
            ClaimedScore(resp[1].catalog[i], resp[1].body.keywords) > 0}) > 4
    /\ \E a, b \in 1..4 :
          a < b /\ resp[1].body.candidates[a] > resp[1].body.candidates[b]
    /\ \E a, b \in 1..4 :
          /\ a < b
          /\ ClaimedScore(resp[1].catalog[resp[1].body.candidates[a]],
                          resp[1].body.keywords)
             = ClaimedScore(resp[1].catalog[resp[1].body.candidates[b]],
                            resp[1].body.keywords)

\* C17: a failed fetch ends the call with no value, issues no further fetch
\* and leaves the cache as it was; the next call of that caller on the still
\* empty cache issues a new fetch.
C17_FailureNotCached ==
    [][\A p \in Callers :
          /\ (pc[p] = "fetching" /\ pc'[p] = "failed") =>
                (cache' = cache /\ fetches' = fetches /\ ret'[p] = None)
          /\ (pc[p] = "failed" /\ pc'[p] # "failed" /\ cache = None) =>
                (pc'[p] = "fetching" /\ fetches' = fetches + 1)]_vars

\* the only caller that ever called failed once and is fetching again
C17_Witness ==
    /\ anyFailed /\ cache = None /\ fetches = 2 /\ calls = 2
    /\ \E p \in Callers :
          /\ pc[p] = "fetching"
          /\ \A q \in Callers \ {p} : pc[q] = "idle"

====
